---- MODULE Spec2Model ----
(***************************************************************************)
(* Model of scripts/rules_lint.py: the linter for Windsurf workspace rule  *)
(* files.  lint() walks RULES_DIR.rglob('*.md'), reads every file as UTF-8 *)
(* text, and applies a length check and an activation-marker check.        *)
(***************************************************************************)
EXTENDS Integers, Sequences, FiniteSets, TLC

VARIABLES
    dirExists,  \* whether RULES_DIR exists on disk
    fs,         \* the *.md entries under RULES_DIR: path -> file
    order,      \* the sequence in which rglob yields the entries
    idx,        \* number of entries the for loop has consumed
    rc,         \* the local variable rc of lint()
    stderr,     \* the lines lint() has printed to sys.stderr so far
    reads,      \* the paths on which read_text was called, in call order
    ret,        \* the value lint() returned, or NoReturn
    exitStatus, \* the exit status of the process, or NoExit
    pc          \* position of the program

vars == <<dirExists, fs, order, idx, rc, stderr, reads, ret, exitStatus, pc>>

----------------------------------------------------------------------------
(* Bounds of the model *)

MaxFiles == 2

(* Program constants *)

MAX_LEN == 6000

Paths == {"rules/a.md", "rules/b.md", "rules/sub/c.md"}

\* ret and exitStatus hold <<>> until there is a value v, and then <<v>>
NoReturn == <<>>
NoExit == <<>>

----------------------------------------------------------------------------
(* Characters.  A text is a sequence of one-character strings. *)

CR == "\r"
LF == "\n"
LongS == "LATIN SMALL LETTER LONG S"   \* the character U+017F
DottedI == "LATIN CAPITAL LETTER I WITH DOT ABOVE"   \* the character U+0130
DotlessI == "LATIN SMALL LETTER DOTLESS I"   \* the character U+0131

LowerLetters == <<"a","b","c","d","e","g","i","l","m","n","o","s","u","w","y">>
UpperLetters == <<"A","B","C","D","E","G","I","L","M","N","O","S","U","W","Y">>

\* the characters that re.I does not compare by identity when it matches
\* the letters of the pattern, each with the character it is compared as:
\* an upper-case letter as its lower case, U+017F as "s", and U+0130 and
\* U+0131 as "i"
IgnoreCasePairs ==
    {<<UpperLetters[k], LowerLetters[k]>> : k \in 1..Len(UpperLetters)}
    \cup {<<LongS, "s">>, <<DottedI, "i">>, <<DotlessI, "i">>}

IgnoreCaseChars == {p[1] : p \in IgnoreCasePairs}

IgnoreCaseMap ==
    [c \in IgnoreCaseChars |-> (CHOOSE p \in IgnoreCasePairs : p[1] = c)[2]]

\* a case-sensitive comparison
IgnoreCaseKey_Identity(c) == c

IgnoreCaseKey(c) == IF c \in IgnoreCaseChars THEN IgnoreCaseMap[c] ELSE c

\* the first alternative without its angle bracket
Alternatives_NoAngle ==
    << <<"g","l","o","b">>,
       <<"A","l","w","a","y","s"," ","O","n">>,
       <<"M","a","n","u","a","l">>,
       <<"M","o","d","e","l"," ","D","e","c","i","s","i","o","n">> >>

\* the alternatives of the pattern of ACTIVATION_RE, in the pattern's order
Alternatives ==
    << <<"<","g","l","o","b">>,
       <<"A","l","w","a","y","s"," ","O","n">>,
       <<"M","a","n","u","a","l">>,
       <<"M","o","d","e","l"," ","D","e","c","i","s","i","o","n">> >>

\* re.compile(..., re.I): every literal of the pattern is compiled to the
\* character it is compared as
ACTIVATION_RE ==
    [a \in 1..Len(Alternatives) |->
        [k \in 1..Len(Alternatives[a]) |-> IgnoreCaseKey(Alternatives[a][k])]]

\* the compiled alternative alt matches txt at position pos
MatchesAt(txt, pos, alt) ==
    /\ pos + Len(alt) - 1 <= Len(txt)
    /\ \A k \in 1..Len(alt) : IgnoreCaseKey(txt[pos + k - 1]) = alt[k]

\* ACTIVATION_RE.search(txt) is not None
ACTIVATION_RE_search(txt) ==
    \E pos \in 1..Len(txt) : \E a \in 1..Len(Alternatives) :
        MatchesAt(txt, pos, ACTIVATION_RE[a])

----------------------------------------------------------------------------
(* Files.  The stored characters of a file are lead filler characters, a   *)
(* body, and pad filler characters.                                         *)

Filler == "x"

Fill(n) == [k \in 1..n |-> Filler]

RawChars(f) == Fill(f.lead) \o f.body \o Fill(f.pad)

\* path.read_text('utf8'): text mode with universal newlines, so "\r\n" and
\* a lone "\r" are both read as "\n"
read_text(f) ==
    LET raw == RawChars(f)
        withPrev == [k \in 1..Len(raw) |->
                        <<raw[k], IF k > 1 THEN raw[k-1] ELSE "">>]
        kept == SelectSeq(withPrev, LAMBDA p : ~(p[1] = LF /\ p[2] = CR))
    IN  <<>> \o [k \in 1..Len(kept) |->
                    IF kept[k][1] = CR THEN LF ELSE kept[k][1]]

----------------------------------------------------------------------------
(* Inputs *)

Text(lead, body, pad) ==
    [readable |-> TRUE, lead |-> lead, body |-> body, pad |-> pad]

Unreadable == [readable |-> FALSE, lead |-> 0, body |-> <<>>, pad |-> 0]

GlobTag       == <<"<","g","l","o","b",">">>
ManualUpper   == <<"M","A","N","U","A","L">>
AlwaysLower   == <<"a","l","w","a","y","s"," ","o","n">>
AlwaysLongS   == <<"a","l","w","a","y",LongS," ","o","n">>
AlwaysNewline == <<"A","l","w","a","y","s",CR,LF,"O","n">>
DecisionMixed == <<"m","O","d","E","l"," ","d","E","c","I","s","I","o","N">>
DecisionDots  == <<"M","o","d","e","l"," ","D","e","c",DotlessI,"s",DottedI,"o","n">>
ManualCRLF    == <<"M","a","n","u","a","l",CR,LF>>
Truncated     == <<"M","a","n","u","a">>
GlobNoAngle   == <<"g","l","o","b">>

\* files that pass both checks
PassingFiles ==
    { Text(0, GlobTag, 3),
      Text(1, ManualUpper, 0),
      Text(0, AlwaysLongS, 0),
      Text(0, DecisionDots, 0),
      Text(0, DecisionMixed, MAX_LEN - Len(DecisionMixed)),
      Text(0, ManualCRLF, MAX_LEN + 1 - Len(ManualCRLF)) }

\* files that fail the length check only
LongFiles ==
    { Text(1, AlwaysLower, MAX_LEN - Len(AlwaysLower)) }

\* files that fail the marker check only
UnmarkedFiles ==
    { Text(0, <<>>, 0),
      Text(0, Truncated, 1),
      Text(2, GlobNoAngle, 0),
      Text(0, AlwaysNewline, 0),
      Text(0, <<>>, MAX_LEN) }

\* files that fail both checks
LongUnmarkedFiles ==
    { Text(0, <<>>, MAX_LEN + 1) }

FileStates ==
    PassingFiles \cup LongFiles \cup UnmarkedFiles \cup LongUnmarkedFiles
    \cup {Unreadable}

ReadableFiles == {f \in FileStates : f.readable}

----------------------------------------------------------------------------
(* The body of the for loop, lines 17-23 *)

LengthLine(path) == path \o " exceeds " \o ToString(MAX_LEN) \o " chars"
MarkerLine(path) == path \o " missing activation marker"

\* the limit off by one, either way
TooLong_OffByOne(txt) == Len(txt) > MAX_LEN + 1
TooLong_AtLimit(txt) == Len(txt) >= MAX_LEN

\* the condition of line 18
TooLong(txt) == Len(txt) > MAX_LEN

\* lines 17, 18 and 21: the text read from a file and the two conditions
\* on it
Scan(f) ==
    LET txt == read_text(f)
    IN  [long |-> TooLong(txt), marked |-> ACTIVATION_RE_search(txt)]

\* Scan depends on the file alone, so it is evaluated once per file
ScanTable == {<<f, Scan(f)>> : f \in ReadableFiles}

ScanOf(f) == (CHOOSE e \in ScanTable : e[1] = f)[2]

\* the length check without its print, and with an else branch clearing rc
LengthCheck_Silent(st, path, sc) ==
    IF sc.long THEN [rc |-> 1, err |-> st.err] ELSE st

LengthCheck_Resets(st, path, sc) ==
    IF sc.long
    THEN [rc |-> 1, err |-> Append(st.err, LengthLine(path))]
    ELSE [rc |-> 0, err |-> st.err]

\* lines 18-20; st is [rc, err], the variable rc and the lines on stderr
LengthCheck(st, path, sc) ==
    IF sc.long
    THEN [rc |-> 1, err |-> Append(st.err, LengthLine(path))]
    ELSE st

\* the marker check without rc = 1, as an elif of the length check, and
\* with an else branch clearing rc
MarkerCheck_KeepsRc(st, path, sc) ==
    IF ~sc.marked
    THEN [rc |-> st.rc, err |-> Append(st.err, MarkerLine(path))]
    ELSE st

MarkerCheck_Elif(st, path, sc) ==
    IF ~sc.long /\ ~sc.marked
    THEN [rc |-> 1, err |-> Append(st.err, MarkerLine(path))]
    ELSE st

MarkerCheck_Resets(st, path, sc) ==
    IF ~sc.marked
    THEN [rc |-> 1, err |-> Append(st.err, MarkerLine(path))]
    ELSE [rc |-> 0, err |-> st.err]

\* lines 21-23
MarkerCheck(st, path, sc) ==
    IF ~sc.marked
    THEN [rc |-> 1, err |-> Append(st.err, MarkerLine(path))]
    ELSE st

\* lines 17-23
LoopBody(st, path, f) ==
    MarkerCheck(LengthCheck(st, path, ScanOf(f)), path, ScanOf(f))

----------------------------------------------------------------------------
(* lint() and the module's main block *)

\* the orders in which rglob can yield a set of entries
Orders(S) ==
    {o \in [1..Cardinality(S) -> S] : \A p \in S : \E k \in DOMAIN o : o[k] = p}

Init ==
    /\ dirExists \in BOOLEAN
    /\ \E S \in SUBSET Paths :
          /\ Cardinality(S) <= MaxFiles
          /\ dirExists = FALSE => S = {}
          /\ fs \in [S -> FileStates]
    /\ order = <<>>
    /\ idx = 0
    /\ rc = 0
    /\ stderr = <<>>
    /\ reads = <<>>
    /\ ret = NoReturn
    /\ exitStatus = NoExit
    /\ pc = "main"

\* line 27 calls lint(); lines 15-16: rc = 0 and the rglob generator, which
\* yields nothing when RULES_DIR does not exist
LintBegin ==
    /\ pc = "main"
    /\ rc' = 0
    /\ order' \in (IF dirExists THEN Orders(DOMAIN fs) ELSE {<<>>})
    /\ pc' = "loop"
    /\ UNCHANGED <<dirExists, fs, idx, stderr, reads, ret, exitStatus>>

\* lines 16-23: one iteration on a file that read_text can read
LintIter ==
    /\ pc = "loop"
    /\ idx < Len(order)
    /\ LET path == order[idx + 1] IN
          /\ fs[path].readable
          /\ LET st == LoopBody([rc |-> rc, err |-> stderr], path, fs[path])
             IN  /\ rc' = st.rc
                 /\ stderr' = st.err
          /\ reads' = Append(reads, path)
    /\ idx' = idx + 1
    /\ UNCHANGED <<dirExists, fs, order, ret, exitStatus, pc>>

\* the read failure caught and the file skipped
LintReadFails_Skips ==
    /\ pc = "loop"
    /\ idx < Len(order)
    /\ ~fs[order[idx + 1]].readable
    /\ reads' = Append(reads, order[idx + 1])
    /\ idx' = idx + 1
    /\ UNCHANGED <<dirExists, fs, order, rc, stderr, ret, exitStatus, pc>>

\* lines 16-17: read_text raises (OSError or UnicodeDecodeError); nothing
\* catches it inside lint()
LintReadFails ==
    /\ pc = "loop"
    /\ idx < Len(order)
    /\ LET path == order[idx + 1] IN
          /\ ~fs[path].readable
          /\ reads' = Append(reads, path)
    /\ idx' = idx + 1
    /\ pc' = "raised"
    /\ UNCHANGED <<dirExists, fs, order, rc, stderr, ret, exitStatus>>

\* line 24: the generator is exhausted
LintReturn ==
    /\ pc = "loop"
    /\ idx = Len(order)
    /\ ret' = <<rc>>
    /\ pc' = "returned"
    /\ UNCHANGED <<dirExists, fs, order, idx, rc, stderr, reads, exitStatus>>

\* line 27: sys.exit(lint())
MainExit ==
    /\ pc = "returned"
    /\ exitStatus' = ret
    /\ pc' = "exited"
    /\ UNCHANGED <<dirExists, fs, order, idx, rc, stderr, reads, ret>>

\* line 27: the exception leaves lint() and the module; the interpreter
\* prints the traceback and exits with status 1
MainUncaught ==
    /\ pc = "raised"
    /\ exitStatus' = <<1>>
    /\ pc' = "crashed"
    /\ UNCHANGED <<dirExists, fs, order, idx, rc, stderr, reads, ret>>

Next ==
    \/ LintBegin
    \/ LintIter
    \/ LintReadFails
    \/ LintReturn
    \/ MainExit
    \/ MainUncaught

Spec == Init /\ [][Next]_vars

\* the interpreter runs the single thread until the process ends
FairSpec == Spec /\ WF_vars(Next)

\* lines 15-24 as a function of the traversal order o, every file readable:
\* the value of [rc, err] after the first k files of o
RECURSIVE LintOver(_, _)
LintOver(o, k) ==
    IF k = 0
    THEN [rc |-> 0, err |-> <<>>]
    ELSE LoopBody(LintOver(o, k - 1), o[k], fs[o[k]])

----------------------------------------------------------------------------
(* The vocabulary of the specification *)

LengthLimit == 6000

Markers ==
    { <<"<","g","l","o","b">>,
      <<"A","l","w","a","y","s"," ","O","n">>,
      <<"M","a","n","u","a","l">>,
      <<"M","o","d","e","l"," ","D","e","c","i","s","i","o","n">> }

\* the simple upper-case and lower-case mappings of Unicode on the
\* characters of the model: U+017F has the upper case "S", U+0131 the upper
\* case "I", and U+0130 the lower case "i"
SimpleUpper(c) ==
    IF c = LongS THEN "S"
    ELSE IF c = DotlessI THEN "I"
    ELSE IF \E k \in DOMAIN LowerLetters : LowerLetters[k] = c
         THEN UpperLetters[CHOOSE k \in DOMAIN LowerLetters : LowerLetters[k] = c]
         ELSE c

SimpleLower(c) ==
    IF c = DottedI THEN "i"
    ELSE IF \E k \in DOMAIN UpperLetters : UpperLetters[k] = c
         THEN LowerLetters[CHOOSE k \in DOMAIN UpperLetters : UpperLetters[k] = c]
         ELSE c

\* two characters are the same letter in some case if the case mappings
\* take them to the same character
UpperCase(c) == SimpleUpper(SimpleLower(SimpleUpper(c)))

SameIgnoringCase(u, v) ==
    /\ Len(u) = Len(v)
    /\ \A k \in 1..Len(u) : UpperCase(u[k]) = UpperCase(v[k])

\* the content contains marker m in some letter case
ContainsInAnyCase(txt, m) ==
    \E pos \in 1..(Len(txt) - Len(m) + 1) :
        SameIgnoringCase(SubSeq(txt, pos, pos + Len(m) - 1), m)

\* the content of a readable file: its length in characters and whether it
\* contains a marker; evaluated once per file
Content(f) ==
    LET txt == read_text(f)
    IN  [length |-> Len(txt),
         hasMarker |-> \E m \in Markers : ContainsInAnyCase(txt, m)]

ContentTable == {<<f, Content(f)>> : f \in ReadableFiles}

ContentOf(f) == (CHOOSE e \in ContentTable : e[1] = f)[2]

ExceedsLimit(f) == f.readable /\ ContentOf(f).length > LengthLimit
LacksMarker(f)  == f.readable /\ ~ContentOf(f).hasMarker
MeetsBoth(f)    == f.readable /\ ~ExceedsLimit(f) /\ ~LacksMarker(f)
FailsACheck(f)  == ExceedsLimit(f) \/ LacksMarker(f)

ExceedsMessage(p) == p \o " exceeds 6000 chars"
MissingMessage(p) == p \o " missing activation marker"

\* the diagnostics the specification requires for the file at path p
ExpectedLines(p) ==
    (IF ExceedsLimit(fs[p]) THEN <<ExceedsMessage(p)>> ELSE <<>>)
    \o (IF LacksMarker(fs[p]) THEN <<MissingMessage(p)>> ELSE <<>>)

Names(line, p) == line \in {ExceedsMessage(p), MissingMessage(p)}

\* the emitted diagnostics that name p, in the order of emission
LinesFor(p) == SelectSeq(stderr, LAMBDA line : Names(line, p))

Emitted == {stderr[k] : k \in DOMAIN stderr}

AllReadable == \A p \in DOMAIN fs : fs[p].readable

Returned == pc \in {"returned", "exited"}
Aborted  == pc \in {"raised", "crashed"}
Ended    == pc \in {"exited", "crashed"}

\* the position of p in the traversal, defined once lint() runs
PosOf(p) == CHOOSE k \in DOMAIN order : order[k] = p

\* the traversal reaches position k: no file before it is unreadable
Reaches(k) == \A j \in 1..(k - 1) : fs[order[j]].readable

----------------------------------------------------------------------------
(* Claims *)

\* C1: when every rule file is readable, lint() returns 0 if and only if no
\* file has a length violation and no file has a missing-marker violation,
\* and returns 1 otherwise; lint() returns no other value, and the process
\* exits with the value lint() returned.
C1_StatusIffNoViolation ==
    /\ ret \in {NoReturn, <<0>>, <<1>>}
    /\ exitStatus \in {NoExit, <<0>>, <<1>>}
    /\ AllReadable => ~Aborted
    /\ Returned =>
          /\ ret \in {<<0>>, <<1>>}
          /\ ret = <<0>> <=> \A p \in DOMAIN fs : ~FailsACheck(fs[p])
          /\ ret = <<1>> <=> \E p \in DOMAIN fs : FailsACheck(fs[p])
    /\ pc = "exited" => exitStatus = ret

\* lint() has returned 1 for a directory with a passing and a failing file
C1_Witness ==
    /\ pc = "exited"
    /\ exitStatus = <<1>>
    /\ \E p, q \in DOMAIN fs : MeetsBoth(fs[p]) /\ FailsACheck(fs[q])

\* C2 as stated: once the run has ended, every file with more than 6000
\* characters has its length violation on stderr and the exit status is 1,
\* whatever the other files are and wherever the file is in the traversal.
C2_Original ==
    Ended =>
        \A p \in DOMAIN fs :
            ExceedsLimit(fs[p]) =>
                ExceedsMessage(p) \in Emitted /\ exitStatus = <<1>>

\* C2 as amended: a file with more than 6000 characters has its length
\* violation on stderr as soon as the traversal has visited it, and the
\* traversal visits it unless read_text raises on a file before it; the
\* exit status is 1 in either case.
C2_LengthReported ==
    /\ \A k \in 1..Len(order) :
          ExceedsLimit(fs[order[k]]) =>
              /\ k <= idx => ExceedsMessage(order[k]) \in Emitted /\ rc = 1
              /\ Ended /\ Reaches(k) => ExceedsMessage(order[k]) \in Emitted
    /\ Ended /\ (\E p \in DOMAIN fs : ExceedsLimit(fs[p])) => exitStatus = <<1>>
    /\ Returned /\ (\E p \in DOMAIN fs : ExceedsLimit(fs[p])) => ret = <<1>>

\* a file over the limit was visited after another file and reported
C2_Witness ==
    /\ pc = "exited"
    /\ Len(order) >= 2
    /\ ExceedsLimit(fs[order[Len(order)]])
    /\ ExceedsMessage(order[Len(order)]) \in Emitted
    /\ exitStatus = <<1>>

\* C3 as stated: once the run has ended, every file whose content has none
\* of the markers in any letter case has its missing-marker violation on
\* stderr and the exit status is 1, whatever the other files are and
\* wherever the file is in the traversal.
C3_Original ==
    Ended =>
        \A p \in DOMAIN fs :
            LacksMarker(fs[p]) =>
                MissingMessage(p) \in Emitted /\ exitStatus = <<1>>

\* C3 as amended: a file without any marker has its missing-marker
\* violation on stderr as soon as the traversal has visited it, and the
\* traversal visits it unless read_text raises on a file before it; the
\* exit status is 1 in either case.
C3_MarkerReported ==
    /\ \A k \in 1..Len(order) :
          LacksMarker(fs[order[k]]) =>
              /\ k <= idx => MissingMessage(order[k]) \in Emitted /\ rc = 1
              /\ Ended /\ Reaches(k) => MissingMessage(order[k]) \in Emitted
    /\ Ended /\ (\E p \in DOMAIN fs : LacksMarker(fs[p])) => exitStatus = <<1>>
    /\ Returned /\ (\E p \in DOMAIN fs : LacksMarker(fs[p])) => ret = <<1>>

\* a file without a marker was visited after another file and reported
C3_Witness ==
    /\ pc = "exited"
    /\ Len(order) >= 2
    /\ LacksMarker(fs[order[Len(order)]])
    /\ MissingMessage(order[Len(order)]) \in Emitted
    /\ exitStatus = <<1>>

\* C4: for a file of at most 6000 characters (6000 included) that contains
\* a marker in some letter case, no diagnostic line names its path, and the
\* iteration on that file leaves rc and stderr as they were.
C4_PassingFileSilent ==
    /\ [](\A p \in DOMAIN fs : MeetsBoth(fs[p]) => LinesFor(p) = <<>>)
    /\ [][(pc = "loop" /\ idx' = idx + 1 /\ MeetsBoth(fs[order[idx']]))
            => (rc' = rc /\ stderr' = stderr)]_vars

\* a file of exactly 6000 characters with a marker was visited, and lint()
\* returned 0
C4_Witness ==
    /\ pc = "exited"
    /\ exitStatus = <<0>>
    /\ \E p \in DOMAIN fs :
          MeetsBoth(fs[p]) /\ ContentOf(fs[p]).length = LengthLimit

\* C5: if every file passes both checks, which includes a rules directory
\* with no matching file and one that does not exist, no diagnostic line is
\* emitted, the run does not abort, and the exit status is 0.
C5_AllPassExitZero ==
    (\A p \in DOMAIN fs : MeetsBoth(fs[p])) =>
        /\ stderr = <<>>
        /\ ~Aborted
        /\ Returned => ret = <<0>>
        /\ pc = "exited" => exitStatus = <<0>>
        /\ ~dirExists /\ pc # "main" => order = <<>>

\* the run over two passing files has exited with status 0
C5_Witness ==
    /\ pc = "exited"
    /\ exitStatus = <<0>>
    /\ stderr = <<>>
    /\ Cardinality(DOMAIN fs) >= 2

\* the directory holds exactly one passing file p and one failing file q
OnePassOneFail(p, q) ==
    /\ DOMAIN fs = {p, q}
    /\ p # q
    /\ MeetsBoth(fs[p])
    /\ FailsACheck(fs[q])

\* C6 as stated: for a directory with one passing and one failing file,
\* exactly one diagnostic line is emitted, it names the failing file, and
\* the exit status is 1.
C6_Original ==
    \A p, q \in DOMAIN fs :
        pc = "exited" /\ OnePassOneFail(p, q) =>
            /\ Len(stderr) = 1
            /\ Names(stderr[1], q)
            /\ exitStatus = <<1>>

\* C6 as amended: for a directory with one passing and one failing file,
\* exactly one diagnostic line is emitted for each check the failing file
\* fails (one line or two), every line names the failing file, and the exit
\* status is 1.
C6_OneLinePerFailedCheck ==
    \A p, q \in DOMAIN fs :
        pc = "exited" /\ OnePassOneFail(p, q) =>
            /\ Len(stderr) = Len(ExpectedLines(q))
            /\ Len(stderr) \in {1, 2}
            /\ \A k \in DOMAIN stderr : Names(stderr[k], q)
            /\ exitStatus = <<1>>

\* the run over one passing file and one file failing one check has exited
C6_Witness ==
    /\ pc = "exited"
    /\ Len(stderr) = 1
    /\ \E p, q \in DOMAIN fs : OnePassOneFail(p, q) /\ order = <<q, p>>

\* C7 as stated: once the run has ended, the diagnostics naming a file are
\* exactly one line per check the file fails, the length line before the
\* missing-marker line, for every file; a file failing both checks gives
\* two lines and exit status 1.
C7_Original ==
    Ended =>
        \A p \in DOMAIN fs :
            fs[p].readable =>
                /\ LinesFor(p) = ExpectedLines(p)
                /\ Len(ExpectedLines(p)) = 2 => exitStatus = <<1>>

\* C7 as amended: the two checks are applied independently, with no
\* short-circuit, to every file the traversal reads: the diagnostics naming
\* a file that has been read are one line per check the file fails, the
\* length line before the missing-marker line; no line names a file that
\* has not been read, and a file stays unread only when read_text raised on
\* a file before it.  A file failing both checks gives exit status 1.
C7_BothChecksApplied ==
    /\ \A k \in 1..Len(order) :
          fs[order[k]].readable =>
              /\ LinesFor(order[k]) =
                    IF k <= idx THEN ExpectedLines(order[k]) ELSE <<>>
              /\ Ended /\ Reaches(k) => k <= idx
    /\ Ended /\ (\E p \in DOMAIN fs : Len(ExpectedLines(p)) = 2)
          => exitStatus = <<1>>

\* a file failing both checks was visited second and has its two lines
C7_Witness ==
    /\ pc = "exited"
    /\ Len(order) >= 2
    /\ LinesFor(order[2]) =
          <<ExceedsMessage(order[2]), MissingMessage(order[2])>>
    /\ exitStatus = <<1>>

\* C8: when all files are readable, the files read so far are the files
\* enumerated so far, each once, whatever violations they produced; at the
\* return every enumerated file has been read and checked exactly once;
\* lint() returns only after the last file, and does return; and once rc
\* is 1 it stays 1.
C8_PassContinues ==
    /\ [](AllReadable => reads = SubSeq(order, 1, idx))
    /\ [](Returned =>
            /\ reads = order
            /\ Len(reads) = Cardinality(DOMAIN fs)
            /\ \A p \in DOMAIN fs :
                  /\ Cardinality({k \in DOMAIN reads : reads[k] = p}) = 1
                  /\ LinesFor(p) = ExpectedLines(p))
    /\ [][rc = 1 => rc' = 1]_vars
    /\ [][(pc = "loop" /\ pc' = "returned") => idx = Len(order)]_vars
    /\ (AllReadable /\ pc = "main") ~> (pc = "exited")

\* the pass went on after a violation in the first file, and the passing
\* last file left the result at 1
C8_Witness ==
    /\ pc = "exited"
    /\ Len(order) >= 2
    /\ FailsACheck(fs[order[1]])
    /\ MeetsBoth(fs[order[Len(order)]])
    /\ reads = order
    /\ ret = <<1>>

\* C9: if read_text fails on a file, lint() raises at that file: it never
\* returns a value, no later file is read, no diagnostic names the
\* unreadable file or a later file, and the diagnostics emitted before
\* stay as they are.
C9_ReadFailureAborts ==
    /\ [](Aborted =>
            /\ ret = NoReturn
            /\ idx >= 1
            /\ ~fs[order[idx]].readable
            /\ reads = SubSeq(order, 1, idx)
            /\ \A k \in idx..Len(order) : LinesFor(order[k]) = <<>>)
    /\ [][(pc = "loop" /\ idx < Len(order) /\ ~fs[order[idx + 1]].readable)
            => (pc' = "raised" /\ stderr' = stderr /\ rc' = rc)]_vars
    /\ [][Aborted =>
            (Aborted' /\ stderr' = stderr /\ reads' = reads /\ ret' = ret)]_vars

\* the run has aborted on the first file while a later file, which fails a
\* check, was never read
C9_Witness ==
    /\ pc = "crashed"
    /\ idx < Len(order)
    /\ FailsACheck(fs[order[Len(order)]])
    /\ stderr = <<>>
    /\ ret = NoReturn

\* the file a diagnostic line names
PathOf(line) == CHOOSE p \in DOMAIN fs : Names(line, p)

\* C10: when all files are readable, lint() over any traversal order of the
\* same files gives the value returned and the set of diagnostics emitted,
\* and the emitted lines are in traversal order, file by file.
C10_OrderInsensitive ==
    Returned =>
        /\ AllReadable
        /\ \A o \in Orders(DOMAIN fs) :
              LET r == LintOver(o, Len(o))
              IN  /\ <<r.rc>> = ret
                  /\ {r.err[k] : k \in DOMAIN r.err} = Emitted
        /\ \A i, j \in DOMAIN stderr :
              i < j => PosOf(PathOf(stderr[i])) <= PosOf(PathOf(stderr[j]))

\* two failing files were visited, and each has a line on stderr
C10_Witness ==
    /\ pc = "exited"
    /\ Len(order) = 2
    /\ LinesFor(order[1]) # <<>>
    /\ LinesFor(order[2]) # <<>>

====
